---- MODULE Spec2Model ----
(***************************************************************************)
(* Model of script.js of dialup_visualizer: the spectrogram capture        *)
(* session (animation tick, play / reset / file / ended / export handlers) *)
(* and the solid-mesh builder buildOBJFromCaptured.                        *)
(*                                                                         *)
(* Numbers are fixed point.  Amplitudes and colour channels are in         *)
(* thousandths (1000 = 1.0).  Heights (y) are in hundredths of a scene     *)
(* unit, z coordinates in whole scene units (rounded down), x coordinates  *)
(* of the exported mesh in units of dx/2 about the mesh centre.            *)
(***************************************************************************)
EXTENDS Integers, Sequences, FiniteSets, TLC

\* ------------------------------------------------------------------ sizes
\* The source uses 128 rows and 1024 columns; the model keeps the code's
\* arithmetic and scales the two sizes down.
pointsPerSlice == 4
numSlices == 2
\* longest capture history the builder specification starts from
MaxHist == 3

\* ------------------------------------------------------------ constants
activeFrequencyFraction == 75          \* hundredths
noiseFloor == 3                        \* hundredths
depth == 80
heightScale == 6                       \* tenths
baseThickness == 4
ByteMax == 255
AmpOne == 1000

\* analyser.frequencyBinCount (512 for 128 rows in the source)
freqBinCount == 4 * pointsPerSlice
sliceStride == freqBinCount \div pointsPerSlice

Max(a, b) == IF a >= b THEN a ELSE b
Min(a, b) == IF a <= b THEN a ELSE b

Rows == 0 .. (pointsPerSlice - 1)
Cols == 0 .. (numSlices - 1)
VertexCount == pointsPerSlice * numSlices

zMin == 0 - (depth \div 2)
zMax == depth \div 2

activeRows == Max(2, (pointsPerSlice * activeFrequencyFraction) \div 100)

\* Math.pow(num/den, frequencyExponent) with frequencyExponent = 0.65, in
\* thousandths, tabulated for the fractions t = z / (activeRows - 1) that
\* occur for up to five active rows.
PowFrequencyExponent(num, den) ==
  IF num = 0 THEN 0
  ELSE IF num = den THEN 1000
  ELSE CASE den = 2 /\ num = 1 -> 637
         [] den = 3 /\ num = 1 -> 490
         [] den = 3 /\ num = 2 -> 768
         [] den = 4 /\ num = 1 -> 406
         [] den = 4 /\ num = 2 -> 637
         [] den = 4 /\ num = 3 -> 829

\* zRowPositions[z]
zRowPositions(z) ==
  IF z < activeRows
    THEN zMin + (PowFrequencyExponent(z, activeRows - 1) * (zMax - zMin)) \div 1000
    ELSE zMax

\* ------------------------------------------------------------ colour ramp
RampStops == << 0, 150, 300, 450, 650, 820, 1000 >>
RampColors == << <<550, 0, 0>>, <<1000, 130, 0>>, <<1000, 750, 0>>,
                 <<1000, 1000, 0>>, <<120, 860, 1000>>, <<0, 460, 1000>>,
                 <<0, 120, 700>> >>

Lerp(a, b, num, den) == a + ((b - a) * num) \div den

RECURSIVE RampSegment(_, _)
RampSegment(v, i) ==
  IF i > Len(RampStops) - 1 THEN RampColors[Len(RampColors)]
  ELSE IF v >= RampStops[i] /\ v <= RampStops[i + 1]
    THEN [k \in 1 .. 3 |->
            Lerp(RampColors[i][k], RampColors[i + 1][k],
                 v - RampStops[i], RampStops[i + 1] - RampStops[i])]
    ELSE RampSegment(v, i + 1)

\* mutant of referenceColorRamp: the segment search runs on t unclamped
referenceColorRamp_Unclamped(t) == RampSegment(t, 1)
referenceColorRamp(t) == RampSegment(Min(AmpOne, Max(0, t)), 1)

\* ------------------------------------------------------------ normaliser
\* Math.pow(b / 255, 1.2) in thousandths, tabulated at the raw magnitudes
\* the model draws.
Emphasize(b) ==
  CASE b = 0 -> 0
    [] b = 5 -> 9
    [] b = 7 -> 13
    [] b = 8 -> 16
    [] b = 128 -> 437
    [] b = 255 -> 1000

\* bin < noiseFloor with bin = b / 255
BelowNoiseFloor(b) == b * 100 < noiseFloor * ByteMax

\* mutant of NormalizeBin: the gate is applied to every row
NormalizeBin_GateAllRows(i, b) ==
  Emphasize(IF BelowNoiseFloor(b) THEN 0 ELSE b)
NormalizeBin(i, b) ==
  Emphasize(IF BelowNoiseFloor(b) /\ i >= activeRows THEN 0 ELSE b)

\* newSlice of updateSurfaceFromFrequencies for the analyser data fd
NormalizeSlice(fd) ==
  [i \in Rows |-> NormalizeBin(i, fd[Min(freqBinCount - 1, i * sliceStride)])]

\* y = amp * depth * heightScale
Height(amp) == (amp * depth * heightScale) \div 100
\* mutant of AmpOfHeight: the height is stored as it is read, neither
\* divided by depth * heightScale nor clamped
AmpOfHeight_Unscaled(y) == y * 10
\* Math.max(0, Math.min(1, y / (depth * heightScale)))
AmpOfHeight(y) == Max(0, Min(AmpOne, (y * 100) \div (depth * heightScale)))

\* ---------------------------------------------------------------- builder
\* A capture history hist is a sequence of slices; capturedSlices[i] of the
\* code is hist[i + 1].
activeRowsCount == Max(2, (pointsPerSlice * activeFrequencyFraction) \div 100)
bins == activeRowsCount + 1
z0 == 0 - (depth \div 2)
\* 0.02 * depth * heightScale, in hundredths
flatEps == (2 * depth * heightScale) \div 10

OUT_TOP == <<0, 1, 0>>
OUT_BOTTOM == <<0, -1, 0>>
OUT_FRONT == <<0, 0, 1>>
OUT_BACK == <<0, 0, -1>>
OUT_LEFT == <<-1, 0, 0>>
OUT_RIGHT == <<1, 0, 0>>

\* materialNameForColor: the key of the quantized colour names the material
materialNameForColor(color) ==
  [k \in 1 .. 3 |-> (Min(AmpOne, Max(0, color[k])) * ByteMax + 500) \div 1000]
baseColor == <<700, 700, 700>>
baseMat == materialNameForColor(baseColor)

\* x = x0 + dx * i with x0 = -dx * (slices - 1) / 2, in units of dx / 2
ExportX(i, slices) == 2 * i - (slices - 1)
\* mutant of ExportZ: the boundary row is left at z0
ExportZ_BoundaryAtBack(j) ==
  IF j < activeRowsCount
    THEN z0 + (PowFrequencyExponent(j, activeRowsCount - 1) * depth) \div 1000
    ELSE z0
ExportZ(j) ==
  IF j < activeRowsCount
    THEN z0 + (PowFrequencyExponent(j, activeRowsCount - 1) * depth) \div 1000
    ELSE z0 + depth
TopAmp(hist, i, j) == IF j < activeRowsCount THEN hist[i + 1][j] ELSE 0
\* yTop[i][j]: heights below flatEps are snapped to 0
TopY(hist, i, j) ==
  LET y == Height(TopAmp(hist, i, j)) IN IF y < flatEps THEN 0 ELSE y

\* pushV returns v.length: the top grid is pushed first, slice by slice.
indexTop(i, j) == i * bins + j + 1
\* mutant of indexBottom: the bottom grid reuses the indices of the top grid
indexBottom_TopIndices(slices, i, j) == i * bins + j + 1
indexBottom(slices, i, j) == slices * bins + i * bins + j + 1

TopVertices(hist) ==
  [k \in 1 .. Len(hist) * bins |->
     LET i == (k - 1) \div bins
         j == (k - 1) % bins
     IN << ExportX(i, Len(hist)), TopY(hist, i, j), ExportZ(j) >>]
\* mutant of BottomVertices: the side bottoms of the left wall are pushed as
\* vertices of their own after the bottom grid
BottomVertices_OwnSideBottoms(hist) ==
  [k \in 1 .. (Len(hist) + 1) * bins |->
     LET i == ((k - 1) \div bins) % Len(hist)
         j == (k - 1) % bins
     IN << ExportX(i, Len(hist)), 0 - baseThickness * 100, ExportZ(j) >>]
BottomVertices(hist) ==
  [k \in 1 .. Len(hist) * bins |->
     LET i == (k - 1) \div bins
         j == (k - 1) % bins
     IN << ExportX(i, Len(hist)), 0 - baseThickness * 100, ExportZ(j) >>]

Sub(p, q) == << p[1] - q[1], p[2] - q[2], p[3] - q[3] >>
Cross(p, q) == << p[2] * q[3] - p[3] * q[2],
                  p[3] * q[1] - p[1] * q[3],
                  p[1] * q[2] - p[2] * q[1] >>
Dot(p, q) == p[1] * q[1] + p[2] * q[2] + p[3] * q[3]
FaceNormal(V, i1, i2, i3) == Cross(Sub(V[i2], V[i1]), Sub(V[i3], V[i1]))

\* mutant of emitFace: the indices are stored as given
emitFace_AsGiven(V, i1, i2, i3, desired, matName) ==
  [v |-> <<i1, i2, i3>>, mat |-> matName, desired |-> desired,
   call |-> <<i1, i2, i3>>]
\* emitFace: the stored face, with the indices and the direction it was
\* called with
emitFace(V, i1, i2, i3, desired, matName) ==
  IF Dot(FaceNormal(V, i1, i2, i3), desired) >= 0
    THEN [v |-> <<i1, i2, i3>>, mat |-> matName, desired |-> desired,
          call |-> <<i1, i2, i3>>]
    ELSE [v |-> <<i1, i3, i2>>, mat |-> matName, desired |-> desired,
          call |-> <<i1, i2, i3>>]

\* mutant of flatCell: the corner heights are compared with < 0 instead of
\* === 0, so no cell counts as flat
flatCell_BelowZero(hist, i, j) ==
  /\ TopY(hist, i, j) < 0
  /\ TopY(hist, i + 1, j) < 0
  /\ TopY(hist, i, j + 1) < 0
  /\ TopY(hist, i + 1, j + 1) < 0
\* mutant of flatCell: only the corners (i, j) and (i + 1, j + 1) are tested
flatCell_Diagonal(hist, i, j) ==
  /\ TopY(hist, i, j) = 0
  /\ TopY(hist, i + 1, j + 1) = 0
\* flatCell[i][j]
flatCell(hist, i, j) ==
  /\ TopY(hist, i, j) = 0
  /\ TopY(hist, i + 1, j) = 0
  /\ TopY(hist, i, j + 1) = 0
  /\ TopY(hist, i + 1, j + 1) = 0

\* mutant of GrowW: the width grows over visited cells too
RECURSIVE GrowW_IgnoresVisited(_, _, _, _)
GrowW_IgnoresVisited(hist, visited, iW, j) ==
  IF iW + 1 < Len(hist) - 1 /\ flatCell(hist, iW + 1, j)
    THEN GrowW_IgnoresVisited(hist, visited, iW + 1, j)
    ELSE iW
\* while (iW + 1 < slices - 1 && flatCell[iW + 1][j] && !visited[iW + 1][j]) iW++
RECURSIVE GrowW(_, _, _, _)
GrowW(hist, visited, iW, j) ==
  IF iW + 1 < Len(hist) - 1 /\ flatCell(hist, iW + 1, j)
       /\ <<iW + 1, j>> \notin visited
    THEN GrowW(hist, visited, iW + 1, j)
    ELSE iW

\* mutant of GrowH: only the cell at slice i of the next row is tested
GrowH_FirstCellOnly(hist, visited, i, iW, jH) ==
  LET RECURSIVE Up(_)
      Up(h) ==
        IF h + 1 < bins - 1 /\ flatCell(hist, i, h + 1)
             /\ <<i, h + 1>> \notin visited
          THEN Up(h + 1) ELSE h
  IN Up(jH)
\* the growth of jH over rows whose cells i..iW are all flat and unvisited
RECURSIVE GrowH(_, _, _, _, _)
GrowH(hist, visited, i, iW, jH) ==
  IF jH + 1 < bins - 1
       /\ \A k \in i .. iW :
            flatCell(hist, k, jH + 1) /\ <<k, jH + 1>> \notin visited
    THEN GrowH(hist, visited, i, iW, jH + 1)
    ELSE jH

\* colour of a non-flat top triangle from the mean of its three heights
TriColor(y1, y2, y3) ==
  referenceColorRamp(
    Max(0, Min(AmpOne, ((y1 + y2 + y3) * 1000) \div (3 * Height(AmpOne)))))

\* One pass of the top triangulation loop at cell number k (j outer, i
\* inner); st holds the visited cells, the faces, the non-flat cells and the
\* merged rectangles, each with the two faces emitted for it.
RECURSIVE TopScan(_, _, _, _)
TopScan(hist, V, k, st) ==
  IF k >= (Len(hist) - 1) * (bins - 1) THEN st
  ELSE
    LET i == k % (Len(hist) - 1)
        j == k \div (Len(hist) - 1)
    IN IF <<i, j>> \in st.visited THEN TopScan(hist, V, k + 1, st)
       ELSE IF ~flatCell(hist, i, j) THEN
         LET a == indexTop(i, j)
             bIdx == indexTop(i + 1, j)
             cIdx == indexTop(i + 1, j + 1)
             d == indexTop(i, j + 1)
             c1 == TriColor(TopY(hist, i, j), TopY(hist, i + 1, j),
                            TopY(hist, i + 1, j + 1))
             c2 == TriColor(TopY(hist, i, j), TopY(hist, i + 1, j + 1),
                            TopY(hist, i, j + 1))
             pair == << emitFace(V, a, bIdx, cIdx, OUT_TOP, materialNameForColor(c1)),
                        emitFace(V, a, cIdx, d, OUT_TOP, materialNameForColor(c2)) >>
         IN TopScan(hist, V, k + 1,
              [st EXCEPT
                 !.faces = @ \o pair,
                 !.cells = Append(@, [i |-> i, j |-> j, f |-> pair]),
                 !.visited = @ \cup {<<i, j>>}])
       ELSE
         LET iW == GrowW(hist, st.visited, i, j)
             jH == GrowH(hist, st.visited, i, iW, j)
             a == indexTop(i, j)
             bIdx == indexTop(iW + 1, j)
             cIdx == indexTop(iW + 1, jH + 1)
             d == indexTop(i, jH + 1)
             pair == << emitFace(V, a, bIdx, cIdx, OUT_TOP, baseMat),
                        emitFace(V, a, cIdx, d, OUT_TOP, baseMat) >>
         IN TopScan(hist, V, k + 1,
              [st EXCEPT
                 !.faces = @ \o pair,
                 !.rects = Append(@, [i |-> i, iW |-> iW, j |-> j, jH |-> jH,
                                      f |-> pair]),
                 !.visited = @ \cup ((i .. iW) \X (j .. jH))])

TopTriangulation(hist, V) ==
  TopScan(hist, V, 0,
          [visited |-> {}, faces |-> << >>, cells |-> << >>, rects |-> << >>])

\* the faces of a loop whose pass number n (from 0) emits Pair(n)
RECURSIVE Passes(_, _, _)
Passes(Pair(_), n, count) ==
  IF n >= count THEN << >> ELSE Pair(n) \o Passes(Pair, n + 1, count)

jBoundary == Max(0, Min(bins - 2, activeRowsCount - 1))

FrontSeam(hist, V) ==
  LET Pair(i) ==
        LET a0 == indexTop(i, jBoundary)
            a1 == indexTop(i + 1, jBoundary)
            b0 == indexTop(i, jBoundary + 1)
            b1 == indexTop(i + 1, jBoundary + 1)
        IN << emitFace(V, a0, a1, b1, OUT_FRONT, baseMat),
              emitFace(V, a0, b1, b0, OUT_FRONT, baseMat) >>
  IN Passes(Pair, 0, Len(hist) - 1)

BottomSurface(hist, V) ==
  LET n == Len(hist)
      Pair(k) ==
        LET i == k \div (bins - 1)
            j == k % (bins - 1)
            a == indexBottom(n, i, j)
            b == indexBottom(n, i + 1, j)
            c == indexBottom(n, i + 1, j + 1)
            d == indexBottom(n, i, j + 1)
        IN << emitFace(V, a, b, c, OUT_BOTTOM, baseMat),
              emitFace(V, a, c, d, OUT_BOTTOM, baseMat) >>
  IN Passes(Pair, 0, (n - 1) * (bins - 1))

\* wall along row j (back: j = 0, front: j = bins - 1)
RowWall(hist, V, j, desired) ==
  LET n == Len(hist)
      Pair(i) ==
        LET aTop == indexTop(i, j)
            bTop == indexTop(i + 1, j)
            aBot == indexBottom(n, i, j)
            bBot == indexBottom(n, i + 1, j)
        IN << emitFace(V, aTop, aBot, bBot, desired, baseMat),
              emitFace(V, aTop, bBot, bTop, desired, baseMat) >>
  IN Passes(Pair, 0, n - 1)
BackWall(hist, V) == RowWall(hist, V, 0, OUT_BACK)
FrontWall(hist, V) == RowWall(hist, V, bins - 1, OUT_FRONT)

\* wall along slice i (left: i = 0, right: i = slices - 1), without the
\* two closing faces
SliceWall(hist, V, i, desired) ==
  LET n == Len(hist)
      Pair(j) ==
        LET aTop == indexTop(i, j)
            bTop == indexTop(i, j + 1)
            aBot == indexBottom(n, i, j)
            bBot == indexBottom(n, i, j + 1)
        IN << emitFace(V, aTop, aBot, bBot, desired, baseMat),
              emitFace(V, aTop, bBot, bTop, desired, baseMat) >>
  IN Passes(Pair, 0, bins - 1)

LeftWall(hist, V) ==
  LET n == Len(hist)
  IN SliceWall(hist, V, 0, OUT_LEFT) \o
     << emitFace(V, indexTop(0, bins - 2), indexTop(0, bins - 1),
                 indexBottom(n, 0, bins - 1), OUT_LEFT, baseMat),
        emitFace(V, indexTop(0, bins - 2), indexBottom(n, 0, bins - 1),
                 indexBottom(n, 0, bins - 2), OUT_LEFT, baseMat) >>

RightWall(hist, V) ==
  LET n == Len(hist)
  IN SliceWall(hist, V, n - 1, OUT_RIGHT) \o
     << emitFace(V, indexTop(n - 1, bins - 2), indexBottom(n, n - 1, bins - 2),
                 indexTop(n - 1, bins - 1), OUT_RIGHT, baseMat),
        emitFace(V, indexTop(n - 1, bins - 1), indexBottom(n, n - 1, bins - 2),
                 indexBottom(n, n - 1, bins - 1), OUT_RIGHT, baseMat) >>

\* the materials Map in insertion order: the base material, then every new
\* key in the order the faces ask for it
\* mutant of MaterialsOf: a material is set for every face that asks for one,
\* without the materials.has(key) test
RECURSIVE MaterialsOf_NoHasTest(_, _)
MaterialsOf_NoHasTest(faces, acc) ==
  IF faces = << >> THEN acc
  ELSE MaterialsOf_NoHasTest(Tail(faces), Append(acc, Head(faces).mat))
RECURSIVE MaterialsOf(_, _)
MaterialsOf(faces, acc) ==
  IF faces = << >> THEN acc
  ELSE MaterialsOf(Tail(faces),
         IF \E k \in 1 .. Len(acc) : acc[k] = Head(faces).mat
           THEN acc ELSE Append(acc, Head(faces).mat))

\* buildOBJFromCaptured over the history hist
buildOBJFromCaptured(hist) ==
  LET V == TopVertices(hist) \o BottomVertices(hist)
      top == TopTriangulation(hist, V)
  IN [ slices |-> Len(hist),
       v      |-> V,
       top    |-> top.faces,
       cells  |-> top.cells,
       rects  |-> top.rects,
       visited |-> top.visited,
       seam   |-> FrontSeam(hist, V),
       bottom |-> BottomSurface(hist, V),
       back   |-> BackWall(hist, V),
       front  |-> FrontWall(hist, V),
       left   |-> LeftWall(hist, V),
       right  |-> RightWall(hist, V),
       materials |-> MaterialsOf(top.faces, <<baseMat>>) ]

\* the f lines in file order
FacesOf(m) ==
  m.top \o m.seam \o m.bottom \o m.back \o m.front \o m.left \o m.right
WallFacesOf(m) == m.back \o m.front \o m.left \o m.right

\* ------------------------------------------------------------- the OBJ text
\* objText is kept as its sequence of lines, a line as its keyword and its
\* fields.  pushV pushes one v line per vertex (its coordinates are printed
\* with toFixed(5)), emitFace one usemtl line and one f line per face.
headerLines ==
  << [kind |-> "#", text |-> "Dial-up spectrogram export"],
     [kind |-> "mtllib", file |-> "dialup_spectrogram.mtl"],
     [kind |-> "g", name |-> "spectrogram"] >>
vLines(V) == [k \in 1 .. Len(V) |-> [kind |-> "v", xyz |-> V[k]]]
\* mutant of fLines: usemtl is pushed only when the material changes
RECURSIVE fLines_UsemtlOnChange(_)
fLines_UsemtlOnChange(faces) ==
  IF faces = << >> THEN << >>
  ELSE LET n == Len(faces)
           face == faces[n]
           before == fLines_UsemtlOnChange(SubSeq(faces, 1, n - 1))
       IN IF n > 1 /\ faces[n - 1].mat = face.mat
            THEN before \o << [kind |-> "f", idx |-> face.v] >>
            ELSE before \o << [kind |-> "usemtl", name |-> face.mat],
                              [kind |-> "f", idx |-> face.v] >>
\* the array f: each face's usemtl line and f line, in emission order
fLines(faces) ==
  [k \in 1 .. 2 * Len(faces) |->
     IF k % 2 = 1 THEN [kind |-> "usemtl", name |-> faces[(k + 1) \div 2].mat]
     ELSE [kind |-> "f", idx |-> faces[k \div 2].v]]
\* header.concat(v).concat(f)
objText(m) == headerLines \o vLines(m.v) \o fLines(FacesOf(m))

\* ---------------------------------------------------------------- session
VARIABLES
  paused,          \* audioEl.paused
  ctxState,        \* audioContext.state
  playPc,          \* where the asynchronous play-button handler stands
  filePc,          \* where the asynchronous file-input handler stands
  isCapturing,
  hasEnded,
  capturedSlices,
  freqData,        \* the analyser's byte data of the last tick
  posY,            \* y of positionAttr.array, by vertex index
  colors,          \* the colors array, by vertex index
  geometry,        \* the geometry the surface displays
  exported,        \* TRUE when the last step handed an export to download
  inserted,        \* slices written by ticks since the last reset
  nTicks           \* ticks taken, capped by MaxTicks

vars == << paused, ctxState, playPc, filePc, isCapturing, hasEnded,
           capturedSlices, freqData, posY, colors, geometry, exported,
           inserted, nTicks >>

MaxTicks == numSlices + 1

Vertices == 0 .. (VertexCount - 1)
neutralBase == <<150, 150, 150>>

\* geometry is the initial PlaneGeometry, whose position and colour arrays
\* are positionAttr.array and colors, or a geometry made by
\* finalizeModelGeometry with arrays of its own.
InitialGeometry == [kind |-> "initial", slices |-> numSlices,
                    y |-> << >>, col |-> << >>]
GeometryCount == geometry.slices * pointsPerSlice
GeometryY(idx) == IF geometry.kind = "initial" THEN posY[idx] ELSE geometry.y[idx]
GeometryColor(idx) ==
  IF geometry.kind = "initial" THEN colors[idx] ELSE geometry.col[idx]

\* the raw magnitudes a tick may read: one level per row, held over the
\* sliceStride bins of the row
RawLevels == {0, 5, 255}
FrameOf(levels) == [k \in 0 .. (freqBinCount - 1) |-> levels[k \div sliceStride]]
TickLevels ==
  { [z \in Rows |-> IF z = 0 THEN 255 ELSE 0],
    [z \in Rows |-> IF z = activeRows - 1 THEN 255 ELSE 5] }
TickFrames == { FrameOf(l) : l \in TickLevels }
ZeroFrame == FrameOf([z \in Rows |-> 0])

\* mutant of ShiftY: the new column is written without the left shift
ShiftY_NoShift(y, newSlice) ==
  [idx \in Vertices |->
     IF idx % numSlices < numSlices - 1 THEN y[idx]
     ELSE Height(newSlice[idx \div numSlices])]
\* the left shift of every row and the new rightmost column
ShiftY(y, newSlice) ==
  [idx \in Vertices |->
     IF idx % numSlices < numSlices - 1 THEN y[idx + 1]
     ELSE Height(newSlice[idx \div numSlices])]
ShiftColors(c, newSlice) ==
  [idx \in Vertices |->
     IF idx % numSlices < numSlices - 1 THEN c[idx + 1]
     ELSE referenceColorRamp(newSlice[idx \div numSlices])]

\* resetVisualization: y of the displayed geometry's position array for the
\* first positionAttr.count vertices, and the colors array
resetVisualization ==
  /\ colors' = [idx \in Vertices |-> neutralBase]
  /\ IF geometry.kind = "initial"
       THEN /\ posY' = [idx \in Vertices |-> 0]
            /\ geometry' = geometry
       ELSE /\ posY' = posY
            /\ geometry' =
                 [geometry EXCEPT !.y =
                    [idx \in DOMAIN geometry.y |->
                       IF idx < VertexCount THEN 0 ELSE geometry.y[idx]]]

\* finalizeModelGeometry
FinalGeometry(hist) ==
  LET slices == Len(hist)
      idxs == 0 .. (slices * pointsPerSlice - 1)
  IN [kind |-> "final", slices |-> slices,
      y |-> [idx \in idxs |->
               Height(hist[(idx % slices) + 1][idx \div slices])],
      col |-> [idx \in idxs |->
               referenceColorRamp(hist[(idx % slices) + 1][idx \div slices])]]
finalizeModelGeometry ==
  geometry' = IF Len(capturedSlices) < 2 THEN geometry
              ELSE FinalGeometry(capturedSlices)

\* synthesizeCapturedFromSurface: the history sampled from the displayed
\* geometry
synthesizeCapturedFromSurface ==
  LET slices == Max(2, GeometryCount \div pointsPerSlice)
  IN [x \in 1 .. slices |->
        [z \in Rows |-> AmpOfHeight(GeometryY(z * slices + (x - 1)))]]

Init ==
  /\ paused = TRUE
  /\ ctxState = "suspended"
  /\ playPc = "idle"
  /\ filePc = "idle"
  /\ isCapturing = FALSE
  /\ hasEnded = FALSE
  /\ capturedSlices = << >>
  /\ freqData = ZeroFrame
  /\ posY = [idx \in Vertices |-> 0]
  /\ colors = [idx \in Vertices |-> neutralBase]
  /\ geometry = InitialGeometry
  /\ exported = FALSE
  /\ inserted = << >>
  /\ nTicks = 0

\* mutant of CaptureSlice: the slice is kept whether capturing or not
CaptureSlice_Always(hist, capturing, newSlice) == Append(hist, newSlice)
\* if (isCapturing) capturedSlices.push(newSlice.slice())
CaptureSlice(hist, capturing, newSlice) ==
  IF capturing THEN Append(hist, newSlice) ELSE hist

\* animate, when it calls updateSurfaceFromFrequencies and the analyser
\* delivers one of frames
\* updateSurfaceFromFrequencies from newSlice on: the capture and the
\* scroll of the live buffer
SurfaceWrites(newSlice) ==
  /\ capturedSlices' = CaptureSlice(capturedSlices, isCapturing, newSlice)
  /\ posY' = ShiftY(posY, newSlice)
  /\ colors' = ShiftColors(colors, newSlice)
  /\ inserted' = Append(inserted, newSlice)
TickOn(frames) ==
  /\ ~paused /\ ~hasEnded
  /\ nTicks < MaxTicks
  /\ \E fd \in frames : freqData' = fd /\ SurfaceWrites(NormalizeSlice(fd))
  /\ nTicks' = nTicks + 1
  /\ exported' = FALSE
  /\ UNCHANGED << paused, ctxState, playPc, filePc, isCapturing, hasEnded,
                  geometry >>
Tick == TickOn(TickFrames)

\* play button, audio paused: up to the first await.  One such handler is in
\* flight at a time.
PlayClick ==
  /\ paused /\ playPc = "idle"
  /\ IF ctxState = "suspended"
       THEN playPc' = "resume" /\ paused' = paused
       ELSE playPc' = "play" /\ paused' = FALSE
  /\ exported' = FALSE
  /\ UNCHANGED << ctxState, filePc, isCapturing, hasEnded, capturedSlices,
                  freqData, posY, colors, geometry, inserted, nTicks >>

\* audioContext.resume() settles; the handler calls audioEl.play()
PlayResumed ==
  /\ playPc = "resume"
  /\ ctxState' = "running"
  /\ paused' = FALSE
  /\ playPc' = "play"
  /\ exported' = FALSE
  /\ UNCHANGED << filePc, isCapturing, hasEnded, capturedSlices,
                  freqData, posY, colors, geometry, inserted, nTicks >>

\* audioEl.play() settles; the handler sets isCapturing
PlayStarted ==
  /\ playPc = "play"
  /\ isCapturing' = TRUE
  /\ playPc' = "idle"
  /\ exported' = FALSE
  /\ UNCHANGED << paused, ctxState, filePc, hasEnded, capturedSlices,
                  freqData, posY, colors, geometry, inserted, nTicks >>

\* play button, audio playing
PauseClick ==
  /\ ~paused
  /\ paused' = TRUE
  /\ isCapturing' = FALSE
  /\ exported' = FALSE
  /\ UNCHANGED << ctxState, playPc, filePc, hasEnded, capturedSlices,
                  freqData, posY, colors, geometry, inserted, nTicks >>

ResetClick ==
  /\ paused' = TRUE
  /\ hasEnded' = FALSE
  /\ isCapturing' = FALSE
  /\ capturedSlices' = << >>
  /\ resetVisualization
  /\ inserted' = << >>
  /\ exported' = FALSE
  /\ UNCHANGED << ctxState, playPc, filePc, freqData, nTicks >>

\* file input: a new source is set, which pauses the element; play() and
\* isCapturing follow at once unless the context has to be resumed first
FileChange ==
  /\ filePc = "idle"
  /\ IF ctxState = "suspended"
       THEN /\ filePc' = "resume"
            /\ paused' = TRUE
            /\ isCapturing' = isCapturing
       ELSE /\ filePc' = "idle"
            /\ paused' = FALSE
            /\ isCapturing' = TRUE
  /\ exported' = FALSE
  /\ UNCHANGED << ctxState, playPc, hasEnded, capturedSlices,
                  freqData, posY, colors, geometry, inserted, nTicks >>

FileResumed ==
  /\ filePc = "resume"
  /\ filePc' = "idle"
  /\ ctxState' = "running"
  /\ paused' = FALSE
  /\ isCapturing' = TRUE
  /\ exported' = FALSE
  /\ UNCHANGED << playPc, hasEnded, capturedSlices,
                  freqData, posY, colors, geometry, inserted, nTicks >>

\* drop: the source is set and played, the play event resumes the context
Drop ==
  /\ paused' = FALSE
  /\ isCapturing' = TRUE
  /\ ctxState' = "running"
  /\ exported' = FALSE
  /\ UNCHANGED << playPc, filePc, hasEnded, capturedSlices,
                  freqData, posY, colors, geometry, inserted, nTicks >>

\* the audio element reaches the end of its source: the element pauses
\* itself and fires 'ended'
Ended ==
  /\ ~paused
  /\ paused' = TRUE
  /\ hasEnded' = TRUE
  /\ isCapturing' = FALSE
  /\ finalizeModelGeometry
  /\ exported' = FALSE
  /\ UNCHANGED << ctxState, playPc, filePc, capturedSlices,
                  freqData, posY, colors, inserted, nTicks >>

\* mutant of ExportClick: the fallback runs on every export and does not
\* empty capturedSlices before it pushes its samples
ExportClick_AlwaysAppends ==
  /\ capturedSlices' = capturedSlices \o synthesizeCapturedFromSurface
  /\ exported' = TRUE
  /\ UNCHANGED << paused, ctxState, playPc, filePc, isCapturing, hasEnded,
                  freqData, posY, colors, geometry, inserted, nTicks >>
\* export button: the history the builder runs on is the captured one, or
\* the one synthesized into capturedSlices when fewer than 2 are captured.
\* The texts handed to downloadTextAsFile are those of
\* buildOBJFromCaptured(capturedSlices'), kept as ExportedMesh.
ExportClick ==
  /\ capturedSlices' = IF Len(capturedSlices) < 2
                         THEN synthesizeCapturedFromSurface
                         ELSE capturedSlices
  /\ exported' = TRUE
  /\ UNCHANGED << paused, ctxState, playPc, filePc, isCapturing, hasEnded,
                  freqData, posY, colors, geometry, inserted, nTicks >>

Next ==
  \/ Tick
  \/ PlayClick
  \/ PlayResumed
  \/ PlayStarted
  \/ PauseClick
  \/ ResetClick
  \/ FileChange
  \/ FileResumed
  \/ Drop
  \/ Ended
  \/ ExportClick

Spec == Init /\ [][Next]_vars

\* the mesh whose texts an export has just handed over
ExportedMesh == buildOBJFromCaptured(capturedSlices)

\* -------------------------------------------------- builder specification
\* The builder as a function of the history: every history of up to MaxHist
\* slices, in the state a session is in after a file was dropped, the
\* history's slices were captured and playback was paused; then export.
BuildLevels ==
  { l \in [Rows -> {0, 255}] : \A z \in Rows : z >= activeRows => l[z] = 0 }
    \cup { [z \in Rows |-> 5] }
BuildFrames == { FrameOf(l) : l \in BuildLevels }

RECURSIVE AdvanceY(_, _)
AdvanceY(y, slices) ==
  IF slices = << >> THEN y ELSE AdvanceY(ShiftY(y, Head(slices)), Tail(slices))
RECURSIVE AdvanceColors(_, _)
AdvanceColors(c, slices) ==
  IF slices = << >> THEN c
  ELSE AdvanceColors(ShiftColors(c, Head(slices)), Tail(slices))

InitBuild ==
  \E n \in 0 .. MaxHist : \E frames \in [1 .. n -> BuildFrames] :
    LET hist == [k \in 1 .. n |-> NormalizeSlice(frames[k])]
    IN /\ paused = TRUE
       /\ ctxState = "running"
       /\ playPc = "idle"
       /\ filePc = "idle"
       /\ isCapturing = FALSE
       /\ hasEnded = FALSE
       /\ capturedSlices = hist
       /\ freqData = IF n = 0 THEN ZeroFrame ELSE frames[n]
       /\ posY = AdvanceY([idx \in Vertices |-> 0], hist)
       /\ colors = AdvanceColors([idx \in Vertices |-> neutralBase], hist)
       /\ geometry = InitialGeometry
       /\ exported = FALSE
       /\ inserted = hist
       /\ nTicks = n

NextBuild == ExportClick

SpecBuild == InitBuild /\ [][NextBuild]_vars

\* ------------------------------------------------ normaliser specification
\* The normaliser as a function of the analyser's data: a session in which a
\* file was dropped and numSlices silent frames were captured takes one more
\* tick, on any frame whose sampled bins hold 0, the magnitudes next to the
\* noise floor (7 < 0.03 * 255 < 8) or 255 and whose other bins hold 0 or 255.
GateLevels == {0, 7, 8, 255}
GateFrames ==
  { [k \in 0 .. (freqBinCount - 1) |->
       IF k % sliceStride = 0 THEN l[k \div sliceStride] ELSE other] :
    l \in [Rows -> GateLevels], other \in {0, ByteMax} }

InitNormalize ==
  LET hist == [k \in 1 .. (MaxTicks - 1) |-> NormalizeSlice(ZeroFrame)]
  IN /\ paused = FALSE
     /\ ctxState = "running"
     /\ playPc = "idle"
     /\ filePc = "idle"
     /\ isCapturing = TRUE
     /\ hasEnded = FALSE
     /\ capturedSlices = hist
     /\ freqData = ZeroFrame
     /\ posY = AdvanceY([idx \in Vertices |-> 0], hist)
     /\ colors = AdvanceColors([idx \in Vertices |-> neutralBase], hist)
     /\ geometry = InitialGeometry
     /\ exported = FALSE
     /\ inserted = hist
     /\ nTicks = MaxTicks - 1

TickGate == TickOn(GateFrames)

NextNormalize == TickGate

SpecNormalize == InitNormalize /\ [][NextNormalize]_vars

\* ------------------------------------------------------ ramp specification
\* referenceColorRamp as a function of its argument: the same session takes
\* one more tick whose slice holds, row by row, any of the arguments below,
\* among them values outside [0, 1], which the normaliser never
\* produces but the function accepts.
RampInputs == {0 - 500, 0, 75, 640, AmpOne, AmpOne + 500}
RampTick ==
  /\ ~paused /\ ~hasEnded
  /\ nTicks < MaxTicks
  /\ \E newSlice \in [Rows -> RampInputs] : SurfaceWrites(newSlice)
  /\ nTicks' = nTicks + 1
  /\ exported' = FALSE
  /\ UNCHANGED << paused, ctxState, playPc, filePc, isCapturing, hasEnded,
                  freqData, geometry >>

NextRamp == RampTick

SpecRamp == InitNormalize /\ [][NextRamp]_vars

\* ------------------------------------------------ the builder called alone
\* buildOBJFromCaptured has no check of capturedSlices.length.  The side
\* walls read indexBottom[0][j] and indexTop[0][j]: with no slice at all
\* indexBottom[0] is undefined and the read throws a TypeError; with one
\* slice or more every read is defined and the texts are returned.
BuilderThrows(hist) == Len(hist) = 0

\* buildOBJFromCaptured() called on capturedSlices as it stands, without the
\* export handler's fallback; exported tells whether it returned its texts.
BuilderCall ==
  /\ exported' = ~BuilderThrows(capturedSlices)
  /\ UNCHANGED << paused, ctxState, playPc, filePc, isCapturing, hasEnded,
                  capturedSlices, freqData, posY, colors, geometry, inserted,
                  nTicks >>

NextBuilder == BuilderCall

SpecBuilder == InitBuild /\ [][NextBuilder]_vars

\* ------------------------------------------------------------ mesh helpers
VertexSet(face) == { face.v[1], face.v[2], face.v[3] }
EdgesOf(face) ==
  { {face.v[1], face.v[2]}, {face.v[2], face.v[3]}, {face.v[1], face.v[3]} }
\* how many of the faces have e as an edge
EdgeUse(faces, e) ==
  Cardinality({ n \in 1 .. Len(faces) : e \subseteq VertexSet(faces[n]) })
StoredNormal(V, face) == FaceNormal(V, face.v[1], face.v[2], face.v[3])
Sum3(p, q, r) == << p[1] + q[1] + r[1], p[2] + q[2] + r[2], p[3] + q[3] + r[3] >>
RECURSIVE SumVertices(_, _)
SumVertices(V, k) ==
  IF k = 0 THEN <<0, 0, 0>>
  ELSE LET rest == SumVertices(V, k - 1)
       IN << rest[1] + V[k][1], rest[2] + V[k][2], rest[3] + V[k][3] >>
\* 3 * Len(V) times the vector from the centroid of the vertices to the
\* centroid of the face
FromCentroid(V, face) ==
  LET total == SumVertices(V, Len(V))
      corner == Sum3(V[face.v[1]], V[face.v[2]], V[face.v[3]])
  IN << Len(V) * corner[1] - 3 * total[1],
        Len(V) * corner[2] - 3 * total[2],
        Len(V) * corner[3] - 3 * total[3] >>
\* slice and row of a top-grid vertex index
TopSliceOf(idx) == (idx - 1) \div bins
TopRowOf(idx) == (idx - 1) % bins

\* ------------------------------------------------------------------ claims

\* C1: watertightness.  In the face list of an export every undirected edge
\* of a face belongs to exactly two faces.
C1_Watertight ==
  exported =>
    LET F == FacesOf(ExportedMesh)
    IN \A k \in 1 .. Len(F) : \A e \in EdgesOf(F[k]) : EdgeUse(F, e) = 2

\* C2: outward winding.  Every face of an export has, in its stored vertex
\* order, a normal whose dot product with the vector from the mesh centroid
\* to the face is strictly positive.
C2_OutwardWinding ==
  exported =>
    LET m == ExportedMesh
        F == FacesOf(m)
    IN \A k \in 1 .. Len(F) :
         Dot(StoredNormal(m.v, F[k]), FromCentroid(m.v, F[k])) > 0

\* C3: every face of an export is non-degenerate: its three vertices have
\* pairwise distinct positions and are not collinear.
C3_NonDegenerate ==
  exported =>
    LET m == ExportedMesh
        F == FacesOf(m)
    IN \A k \in 1 .. Len(F) :
         /\ m.v[F[k].v[1]] # m.v[F[k].v[2]]
         /\ m.v[F[k].v[2]] # m.v[F[k].v[3]]
         /\ m.v[F[k].v[1]] # m.v[F[k].v[3]]
         /\ StoredNormal(m.v, F[k]) # <<0, 0, 0>>

\* C4: every face of an export references three pairwise distinct vertex
\* indices, each in 1 .. (number of emitted vertices).
C4_DistinctIndices ==
  exported =>
    LET m == ExportedMesh
        F == FacesOf(m)
    IN /\ Len(capturedSlices) >= 2
       /\ \A k \in 1 .. Len(F) :
            /\ Cardinality(VertexSet(F[k])) = 3
            /\ VertexSet(F[k]) \subseteq 1 .. Len(m.v)

\* C4 witness: an export with a merged flat rectangle and a non-flat cell
C4_Witness ==
  /\ exported
  /\ Len(capturedSlices) = 3
  /\ LET m == ExportedMesh
     IN Len(m.rects) >= 1 /\ Len(m.top) > 2 * Len(m.rects)

\* C5: every edge of the top triangulation that lies on the boundary of the
\* top grid is an edge of exactly one side-wall face.
OnTopBoundary(e, slices) ==
  \/ \A idx \in e : TopRowOf(idx) = 0
  \/ \A idx \in e : TopRowOf(idx) = bins - 1
  \/ \A idx \in e : TopSliceOf(idx) = 0
  \/ \A idx \in e : TopSliceOf(idx) = slices - 1
C5_BoundaryEdgesWalled ==
  exported =>
    LET m == ExportedMesh
        W == WallFacesOf(m)
    IN \A k \in 1 .. Len(m.top) : \A e \in EdgesOf(m.top[k]) :
         OnTopBoundary(e, m.slices) => EdgeUse(W, e) = 1

\* C6: sliding window.  After k ticks since the last reset, every column
\* c >= numSlices - k of the live buffer holds the height and the ramp colour
\* of slice number k - (numSlices - 1 - c) of those ticks.
C6_SlidingWindow ==
  LET k == Len(inserted)
  IN \A z \in Rows : \A c \in Cols :
       c >= numSlices - k =>
         LET s == inserted[k - (numSlices - 1 - c)]
         IN /\ posY[z * numSlices + c] = Height(s[z])
            /\ colors[z * numSlices + c] = referenceColorRamp(s[z])

\* C6 witness: numSlices + 1 ticks without reset, the first slice differing
\* from the second, which the leftmost column now holds
C6_Witness ==
  /\ Len(inserted) = numSlices + 1
  /\ inserted[1] # inserted[2]
  /\ \A z \in Rows : posY[z * numSlices] = Height(inserted[2][z])

\* C7: right after the reset click handler, every height of the displayed
\* grid is 0 and every colour of it is the neutral base colour.
DisplayedCleared ==
  \A idx \in 0 .. (GeometryCount - 1) :
    GeometryY(idx) = 0 /\ GeometryColor(idx) = neutralBase
C7_ResetClearsDisplayed == [][ResetClick => DisplayedCleared']_vars

\* C8: a tick appends exactly its slice, the one it writes into the live
\* buffer, when isCapturing and leaves capturedSlices alone otherwise; reset
\* leaves capturedSlices empty.
IsTickStep == nTicks' = nTicks + 1
RightColumnHolds(y, slice) ==
  \A z \in Rows : y[z * numSlices + (numSlices - 1)] = Height(slice[z])
C8_TickAppends ==
  [][ /\ IsTickStep =>
           IF isCapturing
             THEN /\ capturedSlices' =
                       Append(capturedSlices, NormalizeSlice(freqData'))
                  /\ RightColumnHolds(posY', capturedSlices'[Len(capturedSlices')])
             ELSE capturedSlices' = capturedSlices
      /\ ResetClick => capturedSlices' = << >> ]_vars

\* C8 witness: ticks have run, some captured and some not
C8_Witness ==
  /\ Len(capturedSlices) >= 1
  /\ Len(inserted) > Len(capturedSlices)
  /\ capturedSlices[Len(capturedSlices)] = inserted[Len(inserted)]

\* C9: the export click handler leaves capturedSlices as it found it.
IsExportStep == exported' /\ ExportClick
C9_ExportKeepsHistory == [][IsExportStep => capturedSlices' = capturedSlices]_vars

\* C10: an export asked for with fewer than 2 captured slices builds on the
\* sampling of the live buffer, one slice per live-buffer column, and every
\* export builds on at least 2 slices.
SampleOfLiveBuffer ==
  [x \in 1 .. numSlices |->
     [z \in Rows |-> AmpOfHeight(posY[z * numSlices + (x - 1)])]]
C10_FallbackSamplesLiveBuffer ==
  [][IsExportStep =>
       /\ Len(capturedSlices') >= 2
       /\ Len(capturedSlices) < 2 => capturedSlices' = SampleOfLiveBuffer]_vars

\* C11: the builder, called on a history, fails and returns no mesh if and
\* only if the history has fewer than 2 slices.
C11_FailsIffShortHistory ==
  [][BuilderCall => (exported' <=> Len(capturedSlices) >= 2)]_vars


\* C12: an export of a history of n >= 2 slices has exactly 2 * n * bins
\* vertices, bins = activeRows + 1: the top grid and the bottom grid and no
\* other vertex, whatever the amplitudes and the merged rectangles.
C12_VertexCount ==
  exported =>
    LET m == ExportedMesh
    IN /\ bins = activeRows + 1
       /\ Len(m.v) = 2 * Len(capturedSlices) * bins
       /\ \A k \in 1 .. Len(capturedSlices) * bins :
            /\ m.v[k][2] >= 0
            /\ m.v[Len(capturedSlices) * bins + k][2] = 0 - baseThickness * 100

\* C12 witness: an export of the longest history with a rectangle merged
\* from several cells and a raised vertex
C12_Witness ==
  /\ exported
  /\ Len(capturedSlices) = MaxHist
  /\ LET m == ExportedMesh
     IN /\ \E k \in 1 .. Len(m.rects) :
             m.rects[k].iW > m.rects[k].i \/ m.rects[k].jH > m.rects[k].j
        /\ \E k \in 1 .. Len(m.v) : m.v[k][2] > 0


\* C13: the export of a history of 2 or more slices whose amplitudes are all
\* 0 is a flat solid: every top-grid vertex has y = 0, every bottom-grid
\* vertex y = -baseThickness, the materials are exactly the base gray, and
\* every face uses it.
AllZero(hist) ==
  \A k \in 1 .. Len(hist) : \A z \in Rows : hist[k][z] = 0
C13_AllZeroFlatSolid ==
  (exported /\ Len(capturedSlices) >= 2 /\ AllZero(capturedSlices)) =>
    LET m == ExportedMesh
        F == FacesOf(m)
        n == Len(capturedSlices) * bins
    IN /\ \A k \in 1 .. n : m.v[k][2] = 0
       /\ \A k \in 1 .. n : m.v[n + k][2] = 0 - baseThickness * 100
       /\ m.materials = << materialNameForColor(baseColor) >>
       /\ \A k \in 1 .. Len(F) : F[k].mat = materialNameForColor(baseColor)

\* C13 witness: the export of the all-zero history of 2 slices, and its top
\* surface
C13_Witness ==
  /\ exported
  /\ Len(capturedSlices) = 2
  /\ AllZero(capturedSlices)
  /\ Len(ExportedMesh.top) >= 2


\* C14: a history of 3 slices with a single amplitude 1.0, at slice i and
\* active row j, and 0 elsewhere.
SpikeAt(hist, i, j) ==
  /\ Len(hist) = 3
  /\ \A k \in 1 .. 3 : \A z \in Rows :
       hist[k][z] = IF k = i + 1 /\ z = j THEN AmpOne ELSE 0
SpikePlaces == (0 .. 2) \X (0 .. (activeRowsCount - 1))
TopCells(slices) == (0 .. (slices - 2)) \X (0 .. (bins - 2))
\* the rectangles of m that cover cell c
RectsOver(m, c) ==
  { k \in 1 .. Len(m.rects) :
      /\ m.rects[k].i <= c[1] /\ c[1] <= m.rects[k].iW
      /\ m.rects[k].j <= c[2] /\ c[2] <= m.rects[k].jH }
EmittedCells(m) == { << m.cells[k].i, m.cells[k].j >> : k \in 1 .. Len(m.cells) }
RectsUseBase(m) ==
  \A k \in 1 .. Len(m.rects) : \A n \in 1 .. 2 : m.rects[k].f[n].mat = baseMat

\* C14 as claimed: the top triangulation emits exactly one non-flat cell,
\* whose two triangles carry two distinct materials, and every other top cell
\* is covered by a merged flat rectangle of the base material.
C14_OneNonFlatCell ==
  \A p \in SpikePlaces :
    (exported /\ SpikeAt(capturedSlices, p[1], p[2])) =>
      LET m == ExportedMesh
      IN /\ Len(m.cells) = 1
         /\ m.cells[1].f[1].mat # m.cells[1].f[2].mat
         /\ \A c \in TopCells(3) \ EmittedCells(m) : RectsOver(m, c) # {}
         /\ RectsUseBase(m)

\* C14 amended: one pair of triangles is emitted for each top cell that has
\* the raised vertex as a corner, a triangle carrying the ramp material of
\* mean height 1/3 when it contains the raised vertex and of mean height 0
\* otherwise; every other top cell is covered by exactly one merged flat
\* rectangle of the base material.
CellsAt(i, j, slices) ==
  { c \in TopCells(slices) : c[1] \in {i - 1, i} /\ c[2] \in {j - 1, j} }
C14_SpikeCells ==
  \A p \in SpikePlaces :
    (exported /\ SpikeAt(capturedSlices, p[1], p[2])) =>
      LET m == ExportedMesh
          raised == materialNameForColor(TriColor(Height(AmpOne), 0, 0))
          level == materialNameForColor(TriColor(0, 0, 0))
      IN /\ EmittedCells(m) = CellsAt(p[1], p[2], 3)
         /\ Len(m.cells) = Cardinality(CellsAt(p[1], p[2], 3))
         /\ \A k \in 1 .. Len(m.cells) : \A n \in 1 .. 2 :
              m.cells[k].f[n].mat =
                IF indexTop(p[1], p[2]) \in VertexSet(m.cells[k].f[n])
                  THEN raised ELSE level
         /\ raised # level /\ raised # baseMat /\ level # baseMat
         /\ \A c \in TopCells(3) \ EmittedCells(m) :
              Cardinality(RectsOver(m, c)) = 1
         /\ \A c \in EmittedCells(m) : RectsOver(m, c) = {}
         /\ RectsUseBase(m)

\* C14 witness: the export of a spike at the middle slice, off the back row,
\* with its four non-flat cells
C14_Witness ==
  /\ exported
  /\ \E j \in 1 .. (activeRowsCount - 1) : SpikeAt(capturedSlices, 1, j)
  /\ Len(ExportedMesh.cells) = 4


\* C15: noise gate.  The slice a tick computes is 0 at row i exactly when the
\* raw magnitude sampled for the row, at index min(freqBinCount - 1,
\* i * sliceStride), is 0, or the row is collapsed (i >= activeRows) and the
\* sampled magnitude is below noiseFloor * 255; a row below activeRows is
\* never gated.
SampledRaw(fd, i) ==
  fd[IF i * sliceStride > freqBinCount - 1 THEN freqBinCount - 1
     ELSE i * sliceStride]
C15_NoiseGate ==
  [][IsTickStep =>
       LET out == inserted'[Len(inserted')]
       IN \A i \in Rows :
            LET raw == SampledRaw(freqData', i)
            IN (out[i] = 0) <=>
                 \/ raw = 0
                 \/ i >= activeRows /\ raw * 100 < noiseFloor * ByteMax]_vars

\* C15 witness: a tick has gated a collapsed row whose sampled magnitude is
\* positive and below the floor, and has kept an active row with the same
\* magnitude
C15_Witness ==
  /\ nTicks = MaxTicks
  /\ \E i \in Rows : \E h \in Rows :
       /\ i < activeRows /\ h >= activeRows
       /\ SampledRaw(freqData, i) = 7 /\ SampledRaw(freqData, h) = 7
       /\ inserted[Len(inserted)][i] > 0
       /\ inserted[Len(inserted)][h] = 0


\* C16: row mapping.  Rows below activeRows map to strictly increasing
\* coordinates, every row from activeRows on maps to the upper bound
\* +depth/2, and every coordinate lies in [-depth/2, +depth/2]; this holds
\* of zRowPositions and of the z the builder gives the rows of an export.
RowMappingHolds(Z(_), last) ==
  /\ \A z1 \in 0 .. last : \A z2 \in 0 .. last :
       (z1 < z2 /\ z2 < activeRows) => Z(z1) < Z(z2)
  /\ \A z \in 0 .. last : z >= activeRows => Z(z) = depth \div 2
  /\ \A z \in 0 .. last : 0 - (depth \div 2) <= Z(z) /\ Z(z) <= depth \div 2
C16_RowMapping ==
  /\ RowMappingHolds(zRowPositions, pointsPerSlice - 1)
  /\ exported =>
       LET m == ExportedMesh
       IN \A i \in 0 .. (m.slices - 1) :
            LET TopZ(j) == m.v[indexTop(i, j)][3]
                BottomZ(j) == m.v[indexBottom(m.slices, i, j)][3]
            IN /\ RowMappingHolds(TopZ, bins - 1)
               /\ RowMappingHolds(BottomZ, bins - 1)

\* C16 witness: an export whose rows run from the lower bound, through a
\* row strictly between the bounds, to the collapsed row at the upper bound
C16_Witness ==
  /\ exported
  /\ activeRows >= 3
  /\ LET m == ExportedMesh
     IN /\ m.v[indexTop(0, 0)][3] = 0 - (depth \div 2)
        /\ m.v[indexTop(0, 1)][3] > 0 - (depth \div 2)
        /\ m.v[indexTop(0, 1)][3] < depth \div 2
        /\ m.v[indexTop(0, bins - 1)][3] = depth \div 2


\* C17: colour ramp.  The colour written for argument 0 is the first stop's
\* colour, for argument 1 the last stop's colour, and for any argument t the
\* colour of min(1, max(0, t)): the first stop's below 0, the last stop's
\* above 1.
Clamp01(t) == IF t < 0 THEN 0 ELSE IF t > AmpOne THEN AmpOne ELSE t
FirstStopColor == RampColors[1]
LastStopColor == RampColors[Len(RampColors)]
C17_RampEndpointsAndClamp ==
  Len(inserted) >= 1 =>
    \A z \in Rows :
      LET t == inserted[Len(inserted)][z]
          c == colors[z * numSlices + (numSlices - 1)]
      IN /\ t = 0 => c = FirstStopColor
         /\ t = AmpOne => c = LastStopColor
         /\ t < 0 => c = FirstStopColor
         /\ t > AmpOne => c = LastStopColor
         /\ c = referenceColorRamp(Clamp01(t))

\* C17 witness: a tick has coloured rows from arguments below 0, above 1
\* and strictly inside a segment
C17_Witness ==
  /\ nTicks = MaxTicks
  /\ \E z1 \in Rows : \E z2 \in Rows : \E z3 \in Rows :
       /\ inserted[Len(inserted)][z1] < 0
       /\ inserted[Len(inserted)][z2] > AmpOne
       /\ inserted[Len(inserted)][z3] = 75
       /\ colors[z1 * numSlices + (numSlices - 1)] = FirstStopColor
       /\ colors[z2 * numSlices + (numSlices - 1)] = LastStopColor
       /\ colors[z3 * numSlices + (numSlices - 1)] = <<775, 65, 0>>


C19_SlicesWellFormed ==
  \A k \in 1 .. Len(capturedSlices) :
    /\ DOMAIN capturedSlices[k] = 0 .. (pointsPerSlice - 1)
    /\ \A z \in DOMAIN capturedSlices[k] :
         0 <= capturedSlices[k][z] /\ capturedSlices[k][z] <= AmpOne

\* C19 witness: the history holds slices sampled by the fallback from a
\* raised surface, followed by a slice a tick appended
C19_Witness ==
  /\ Len(capturedSlices) > Len(inserted)
  /\ Len(inserted) >= 2
  /\ capturedSlices[Len(capturedSlices)] = inserted[Len(inserted)]
  /\ \E z \in Rows : capturedSlices[numSlices][z] = AmpOne


\* C20: flat-region merging.  Each rectangle the top scan (j outer, i inner)
\* emits starts at the first flat cell of the scan that no earlier rectangle
\* covers, spans slices i..iW with iW the largest index such that the cells
\* (i..iW, j) are all flat and uncovered, and rows j..jH with jH the largest
\* index such that the cells (i..iW, j+1..jH) are all flat and uncovered; two
\* triangles of the base material over its four corners are emitted for it,
\* and every cell it covers has its four corner heights at exactly 0.
FlatInMesh(m, c) ==
  \A di \in 0 .. 1 : \A dj \in 0 .. 1 :
    m.v[indexTop(c[1] + di, c[2] + dj)][2] = 0
CoveredBefore(m, k) ==
  { c \in TopCells(m.slices) :
      \E n \in 1 .. (k - 1) :
        /\ m.rects[n].i <= c[1] /\ c[1] <= m.rects[n].iW
        /\ m.rects[n].j <= c[2] /\ c[2] <= m.rects[n].jH }
ScanBefore(c, d) == c[2] < d[2] \/ (c[2] = d[2] /\ c[1] < d[1])
C20_GreedyRectangles ==
  exported =>
    LET m == ExportedMesh
    IN /\ \A k \in 1 .. Len(m.rects) :
            LET r == m.rects[k]
                Free(c) == FlatInMesh(m, c) /\ c \notin CoveredBefore(m, k)
            IN /\ \A x \in r.i .. r.iW : Free(<<x, r.j>>)
               /\ r.iW + 1 > m.slices - 2 \/ ~Free(<<r.iW + 1, r.j>>)
               /\ \A x \in r.i .. r.iW : \A y \in (r.j + 1) .. r.jH :
                    Free(<<x, y>>)
               /\ \/ r.jH + 1 > bins - 2
                  \/ \E x \in r.i .. r.iW : ~Free(<<x, r.jH + 1>>)
               /\ \A c \in TopCells(m.slices) :
                    (ScanBefore(c, <<r.i, r.j>>) /\ FlatInMesh(m, c))
                      => c \in CoveredBefore(m, k)
               /\ Len(r.f) = 2
               /\ \A n \in 1 .. 2 : r.f[n].mat = materialNameForColor(baseColor)
               /\ VertexSet(r.f[1]) \cup VertexSet(r.f[2]) =
                    { indexTop(r.i, r.j), indexTop(r.iW + 1, r.j),
                      indexTop(r.iW + 1, r.jH + 1), indexTop(r.i, r.jH + 1) }
       /\ \A c \in TopCells(m.slices) :
            FlatInMesh(m, c) => Cardinality(RectsOver(m, c)) = 1
       /\ Len(m.top) = 2 * (Len(m.rects) + Len(m.cells))

\* C20 witness: an export with non-flat cells, a rectangle grown over
\* several rows, and a rectangle whose growth over slices stopped at a flat
\* cell that an earlier rectangle covers
C20_Witness ==
  /\ exported
  /\ LET m == ExportedMesh
     IN /\ Len(m.cells) >= 1
        /\ \E k \in 1 .. Len(m.rects) : m.rects[k].jH > m.rects[k].j
        /\ \E k \in 1 .. Len(m.rects) :
             /\ m.rects[k].iW + 1 <= m.slices - 2
             /\ FlatInMesh(m, << m.rects[k].iW + 1, m.rects[k].j >>)


\* C21: material deduplication.  In an export, two face colours with the
\* same 8-bit quantized triple have the same material name and two with
\* different triples have different names; every name a face uses is defined
\* exactly once among the materials, and so is the base material.
Quantized8(color) ==
  [k \in 1 .. 3 |-> (Clamp01(color[k]) * 255 + 500) \div 1000]
CellFaces(m) ==
  { m.cells[k].f[n] : k \in 1 .. Len(m.cells), n \in 1 .. 2 }
\* the colour a face was emitted with: the ramp colour of its mean height for
\* the faces of a non-flat cell, the base colour for every other face
FaceColor(m, face) ==
  IF face \in CellFaces(m)
    THEN TriColor(m.v[face.v[1]][2], m.v[face.v[2]][2], m.v[face.v[3]][2])
    ELSE <<700, 700, 700>>
TimesDefined(m, name) ==
  Cardinality({ k \in 1 .. Len(m.materials) : m.materials[k] = name })
C21_MaterialDedup ==
  exported =>
    LET m == ExportedMesh
        F == FacesOf(m)
        Used == { << Quantized8(FaceColor(m, F[k])), F[k].mat >> :
                    k \in 1 .. Len(F) }
    IN /\ \A p \in Used : \A q \in Used : (p[1] = q[1]) <=> (p[2] = q[2])
       /\ \A p \in Used : TimesDefined(m, p[2]) = 1
       /\ TimesDefined(m, materialNameForColor(baseColor)) = 1

\* C21 witness: an export whose non-flat faces share materials: more such
\* faces than materials, and at least two materials besides the base
C21_Witness ==
  /\ exported
  /\ LET m == ExportedMesh
     IN /\ Len(m.materials) >= 3
        /\ 2 * Len(m.cells) > Len(m.materials)


\* C22: geometry text layout.  The text of an export is the three header
\* lines (comment, mtllib, g), then one v line per vertex in index order,
\* then the face section, in which every f line directly follows a usemtl
\* line of its own and uses 1-based vertex indices; no v line comes after
\* the first usemtl or f line, and there is one f line per emitted face.
C22_ObjTextLayout ==
  exported =>
    LET m == ExportedMesh
        L == objText(m)
        n == Len(m.v)
        F == FacesOf(m)
    IN /\ Len(L) = 3 + n + 2 * Len(F)
       /\ L[1].kind = "#" /\ L[2].kind = "mtllib" /\ L[3].kind = "g"
       /\ \A k \in 1 .. n : L[3 + k].kind = "v" /\ L[3 + k].xyz = m.v[k]
       /\ \A k \in 1 .. Len(L) : L[k].kind = "v" => k <= 3 + n
       /\ \A k \in (3 + n + 1) .. Len(L) :
            /\ L[k].kind \in {"usemtl", "f"}
            /\ L[k].kind = "f" =>
                 /\ L[k - 1].kind = "usemtl"
                 /\ \A x \in 1 .. 3 : L[k].idx[x] \in 1 .. n
            /\ L[k].kind = "usemtl" => k < Len(L) /\ L[k + 1].kind = "f"
       /\ \A k \in 1 .. Len(F) :
            /\ L[3 + n + 2 * k].kind = "f"
            /\ L[3 + n + 2 * k].idx = F[k].v
            /\ L[3 + n + 2 * k - 1].name = F[k].mat

\* C22 witness: the text of an export in which two consecutive faces use the
\* same material and two use different ones
C22_Witness ==
  /\ exported
  /\ LET F == FacesOf(ExportedMesh)
     IN /\ \E k \in 1 .. (Len(F) - 1) : F[k].mat = F[k + 1].mat
        /\ \E k \in 1 .. (Len(F) - 1) : F[k].mat # F[k + 1].mat
  /\ Len(objText(ExportedMesh)) > 3 + Len(ExportedMesh.v)


\* C23: bottom surface alignment.  The bottom grid of an export is
\* triangulated cell by cell, two triangles per cell, and every edge on the
\* boundary of the bottom grid belongs to exactly one bottom face and to
\* exactly one side-wall face, the edges between rows bins-2 and bins-1 of
\* the left and right walls included.
BottomBoundaryEdges(slices) ==
  { { indexBottom(slices, i, j), indexBottom(slices, i + 1, j) } :
      i \in 0 .. (slices - 2), j \in {0, bins - 1} }
  \cup
  { { indexBottom(slices, i, j), indexBottom(slices, i, j + 1) } :
      i \in {0, slices - 1}, j \in 0 .. (bins - 2) }
BottomCellCorners(slices, c) ==
  { indexBottom(slices, c[1] + di, c[2] + dj) : di \in 0 .. 1, dj \in 0 .. 1 }
C23_BottomAligned ==
  exported =>
    LET m == ExportedMesh
        W == WallFacesOf(m)
    IN /\ Len(m.bottom) = 2 * (m.slices - 1) * (bins - 1)
       /\ \A c \in TopCells(m.slices) :
            Cardinality({ k \in 1 .. Len(m.bottom) :
                            VertexSet(m.bottom[k]) \subseteq
                              BottomCellCorners(m.slices, c) }) = 2
       /\ \A e \in BottomBoundaryEdges(m.slices) :
            EdgeUse(m.bottom, e) = 1 /\ EdgeUse(W, e) = 1


\* C24: emitFace orientation.  Every face of an export is stored as
\* (i1, i3, i2) if the normal of (i1, i2, i3), the indices it was emitted
\* with, has a negative dot product with the desired direction, and as
\* (i1, i2, i3) otherwise; the normal of the stored face has a non-negative
\* dot product with that direction, and the three indices are the same.
C24_EmitFaceOrientation ==
  exported =>
    LET m == ExportedMesh
        F == FacesOf(m)
    IN \A k \in 1 .. Len(F) :
         LET given == F[k].call
             dot == Dot(Cross(Sub(m.v[given[2]], m.v[given[1]]),
                              Sub(m.v[given[3]], m.v[given[1]])), F[k].desired)
         IN /\ F[k].v = IF dot < 0 THEN << given[1], given[3], given[2] >>
                        ELSE given
            /\ Dot(StoredNormal(m.v, F[k]), F[k].desired) >= 0
            /\ VertexSet(F[k]) = { given[1], given[2], given[3] }

\* C24 witness: an export with a face whose last two indices were swapped,
\* a face stored as given with a positive dot product, and a face whose dot
\* product is 0
C24_Witness ==
  /\ exported
  /\ LET m == ExportedMesh
         F == FacesOf(m)
     IN /\ \E k \in 1 .. Len(F) : F[k].v # F[k].call
        /\ \E k \in 1 .. Len(F) :
             F[k].v = F[k].call /\ Dot(StoredNormal(m.v, F[k]), F[k].desired) > 0
        /\ \E k \in 1 .. Len(F) :
             Dot(StoredNormal(m.v, F[k]), F[k].desired) = 0


\* the z of a row of a PlaneGeometry(finalWidth, depth, slices - 1,
\* pointsPerSlice - 1) after rotateX(-PI / 2): the rows are evenly spaced
\* from -depth / 2 to depth / 2
PlaneGeometryZ(row) == zMin + (depth * row) \div (pointsPerSlice - 1)
\* the z of a row of the displayed geometry: zRowPositions was written to
\* the initial geometry only
GeometryZ(row) ==
  IF geometry.kind = "initial" THEN zRowPositions(row) ELSE PlaneGeometryZ(row)

\* C25: geometric agreement.  In every state, for every row j < activeRows
\* the z of row j in the displayed geometry equals the z the exporter gives
\* row j of the top grid, for the live buffer and for the geometry shown
\* after 'ended' has finalized the model.
C25_GeometricAgreement ==
  \A j \in 0 .. (activeRows - 1) : GeometryZ(j) = ExportZ(j)


\* the passes of the top loop that emitted the two triangles of cell c
CellEmissions(m, c) ==
  { k \in 1 .. Len(m.cells) : m.cells[k].i = c[1] /\ m.cells[k].j = c[2] }

\* C26: top-surface cover.  When the top triangulation loop of an export
\* has finished, every cell of the top grid is visited; a non-flat cell is
\* covered by one emission of its own two triangles and by no rectangle, a
\* flat cell by exactly one merged rectangle and by no emission of its own;
\* no two merged rectangles have a cell in common.
C26_TopCover ==
  exported =>
    LET m == ExportedMesh
    IN /\ m.visited = TopCells(m.slices)
       /\ \A c \in TopCells(m.slices) :
            IF FlatInMesh(m, c)
              THEN Cardinality(RectsOver(m, c)) = 1 /\ CellEmissions(m, c) = {}
              ELSE Cardinality(CellEmissions(m, c)) = 1 /\ RectsOver(m, c) = {}
       /\ \A k, n \in 1 .. Len(m.rects) :
            k # n =>
              \/ m.rects[k].iW < m.rects[n].i \/ m.rects[n].iW < m.rects[k].i
              \/ m.rects[k].jH < m.rects[n].j \/ m.rects[n].jH < m.rects[k].j
       /\ Len(m.top) = 2 * (Len(m.cells) + Len(m.rects))

\* C26 witness: an export whose top loop emitted a non-flat cell and two
\* merged rectangles, one of them over more than one cell, the later one
\* stopped by a cell the earlier one had visited
C26_Witness ==
  /\ exported
  /\ LET m == ExportedMesh
     IN /\ Len(m.cells) >= 1
        /\ \E k, n \in 1 .. Len(m.rects) :
             /\ k < n
             /\ m.rects[k].jH > m.rects[k].j
             /\ m.rects[n].iW + 1 = m.rects[k].i
             /\ m.rects[k].j <= m.rects[n].j /\ m.rects[n].j <= m.rects[k].jH


\* C27: no duplicate faces.  No two faces of an export have the same set of
\* three vertex indices.
C27_NoDuplicateFaces ==
  exported =>
    LET F == FacesOf(ExportedMesh)
    IN \A k, n \in 1 .. Len(F) : k # n => VertexSet(F[k]) # VertexSet(F[n])


\* a step that pushes onto capturedSlices
AppendsSlice == Len(capturedSlices') > Len(capturedSlices)

\* C28: capture gating.  A slice is appended to capturedSlices, and the
\* live buffer advanced, only in a tick in which the audio is not paused and
\* hasEnded is false; hasEnded becomes true only in the 'ended' handler and
\* false only in the reset handler; loading or dropping a file leaves
\* capturedSlices as it is.
C28_CaptureGating ==
  [][ /\ (AppendsSlice \/ IsTickStep) =>
           (IsTickStep /\ ~paused /\ ~hasEnded)
      /\ (~hasEnded /\ hasEnded') => Ended
      /\ (hasEnded /\ ~hasEnded') => ResetClick
      /\ (FileChange \/ FileResumed \/ Drop) =>
           capturedSlices' = capturedSlices ]_vars


\* the rightmost column of the displayed grid shows the slice of the last
\* tick
DisplayedShowsLastSlice ==
  LET last == inserted[Len(inserted)]
      right(z) == z * geometry.slices + (geometry.slices - 1)
  IN \A z \in Rows :
       /\ GeometryY(right(z)) = Height(last[z])
       /\ GeometryColor(right(z)) = referenceColorRamp(last[z])

\* C29: the position and colour buffers a tick writes are those of the
\* displayed geometry: after every tick the rightmost column of the
\* displayed grid holds the heights and colours of the tick's slice.
C29_TickWritesDisplayed ==
  [][IsTickStep => (geometry'.kind = "initial" /\ DisplayedShowsLastSlice')]_vars


\* C30: the asynchronous play handler.  Every tick that advances the live
\* buffer while hasEnded is false appends its slice to capturedSlices, and
\* the play handler, when it resumes after its awaits, does not set
\* isCapturing if playback was stopped (by reset) while it was suspended.
C30_PlayHandlerInterleaving ==
  [][ /\ (IsTickStep /\ ~hasEnded) =>
           capturedSlices' = Append(capturedSlices, NormalizeSlice(freqData'))
      /\ (PlayStarted /\ paused) => ~isCapturing' ]_vars

====
